---- MODULE Spec2Model ----
(***************************************************************************)
(* Model of scripts/download_xz_from_github.py: the path validator         *)
(* is_safe_path and the validate-then-extract pass extract_tarball.        *)
(* Paths are sequences of one-character strings, so that prefix tests,     *)
(* substring tests, splitting and lexical resolution are computed the way  *)
(* the Python code computes them (POSIX flavour: os.sep = "/").            *)
(***************************************************************************)
EXTENDS Integers, Sequences, FiniteSets, TLC

(* ------------------------------ bounds --------------------------------- *)

\* Longest candidate path the validator specification enumerates.
MaxLen == 4

\* Longest archive (number of members) the extraction specification enumerates.
MaxMembers == 3

(* --------------------------- string helpers ---------------------------- *)

\* str.startswith
StartsWith(s, p) == Len(p) <= Len(s) /\ SubSeq(s, 1, Len(p)) = p

\* the "in" operator on strings: p occurs in s as a substring
Contains(s, p) ==
  \E k \in 1..(Len(s) - Len(p) + 1) : SubSeq(s, k, k + Len(p) - 1) = p

\* index of the first occurrence of p in s (0 when there is none): str.find + 1
FindFirst(s, p) ==
  IF Contains(s, p)
  THEN CHOOSE k \in 1..(Len(s) - Len(p) + 1) :
         /\ SubSeq(s, k, k + Len(p) - 1) = p
         /\ \A h \in 1..(k - 1) : SubSeq(s, h, h + Len(p) - 1) # p
  ELSE 0

\* str.replace(old, new) for a one-character old and new
ReplaceChar(s, old, new) ==
  [k \in 1..Len(s) |-> IF s[k] = old THEN new ELSE s[k]]

\* str.replace(old, new, 1): only the first occurrence; an empty old matches
\* at position 0, so new is prepended
ReplaceFirst(s, old, new) ==
  LET k == FindFirst(s, old) IN
  IF k = 0 THEN s
  ELSE SubSeq(s, 1, k - 1) \o new \o SubSeq(s, k + Len(old), Len(s))

\* str.split('/'): always at least one component, empty components kept
RECURSIVE SplitSlash(_)
SplitSlash(s) ==
  LET k == FindFirst(s, <<"/">>) IN
  IF k = 0 THEN <<s>>
  ELSE <<SubSeq(s, 1, k - 1)>> \o SplitSlash(SubSeq(s, k + 1, Len(s)))

\* '/'.join(comps)
RECURSIVE JoinSlash(_)
JoinSlash(comps) ==
  IF comps = <<>> THEN <<>>
  ELSE IF Len(comps) = 1 THEN comps[1]
  ELSE comps[1] \o <<"/">> \o JoinSlash(Tail(comps))

\* ord(c) for the characters the model uses
Ord(c) ==
  CASE c = "\t" -> 9
    [] c = "\n" -> 10
    [] c = "."  -> 46
    [] c = "/"  -> 47
    [] c = ":"  -> 58
    [] c = "\\" -> 92
    [] OTHER    -> 97

(* ------------------------- os.path and pathlib ------------------------- *)

\* the process's working directory, against which os.path.abspath resolves
Cwd == <<"/", "w">>

\* os.path.isabs
IsAbs(p) == StartsWith(p, <<"/">>)

\* os.path.join(a, b)
PathJoin(a, b) ==
  IF IsAbs(b) THEN b
  ELSE IF a = <<>> \/ a[Len(a)] = "/" THEN a \o b
  ELSE a \o <<"/">> \o b

\* the number of leading slashes os.path.normpath keeps: 0, 1, or 2 for
\* exactly two
InitialSlashes(p) ==
  IF ~StartsWith(p, <<"/">>) THEN 0
  ELSE IF StartsWith(p, <<"/", "/">>) /\ ~StartsWith(p, <<"/", "/", "/">>) THEN 2
  ELSE 1

\* the component stack of os.path.normpath after reading comps[1..n]
RECURSIVE NormComps(_, _, _)
NormComps(comps, n, slashes) ==
  IF n = 0 THEN <<>>
  ELSE LET done == NormComps(comps, n - 1, slashes)
           comp == comps[n]
       IN IF comp = <<>> \/ comp = <<".">> THEN done
          ELSE IF \/ comp # <<".", ".">>
                  \/ (slashes = 0 /\ done = <<>>)
                  \/ (done # <<>> /\ done[Len(done)] = <<".", ".">>)
               THEN Append(done, comp)
          ELSE IF done # <<>> THEN SubSeq(done, 1, Len(done) - 1)
          ELSE done

\* os.path.normpath: lexical resolution of "." and ".." components
NormPath(p) ==
  IF p = <<>> THEN <<".">>
  ELSE LET slashes == InitialSlashes(p)
           comps   == SplitSlash(p)
           body    == JoinSlash(NormComps(comps, Len(comps), slashes))
           res     == [k \in 1..slashes |-> "/"] \o body
       IN IF res = <<>> THEN <<".">> ELSE res

\* os.path.abspath
Abspath(p) == NormPath(IF IsAbs(p) THEN p ELSE PathJoin(Cwd, p))

\* the components os.path.commonpath compares: split on "/", "" and "." dropped
CommonComps(p) ==
  SelectSeq(SplitSlash(p), LAMBDA c : c # <<>> /\ c # <<".">>)

\* os.path.commonpath([a, b]) for two absolute paths
CommonPath(a, b) ==
  LET ca == CommonComps(a)
      cb == CommonComps(b)
      n  == CHOOSE m \in 0..Len(ca) :
              /\ m <= Len(cb)
              /\ SubSeq(ca, 1, m) = SubSeq(cb, 1, m)
              /\ (m < Len(ca) /\ m < Len(cb) => ca[m + 1] # cb[m + 1])
  IN <<"/">> \o JoinSlash(SubSeq(ca, 1, n))

\* pathlib.Path(p).parts on POSIX: the anchor (if any), then the components
\* with "" and "." dropped
PathParts(p) ==
  LET slashes == InitialSlashes(p)
      anchor  == IF slashes = 0 THEN <<>> ELSE <<[k \in 1..slashes |-> "/"]>>
  IN anchor \o SelectSeq(SplitSlash(p), LAMBDA c : c # <<>> /\ c # <<".">>)

(* ----------------------------- is_safe_path ---------------------------- *)

\* (the extract_dir parameter of is_safe_path is called dest_dir here: the
\* name extract_dir is the variable of extract_tarball below)

\* line 124: not member_path or starts with "/" or "\"
ObviouslyDangerous(member_path) ==
  \/ member_path = <<>>
  \/ StartsWith(member_path, <<"/">>)
  \/ StartsWith(member_path, <<"\\">>)

\* line 128: member_path.replace('\\', '/')
NormalizeSeparators(member_path) == ReplaceChar(member_path, "\\", "/")

\* line 129: '..' in normalized_path
HasTraversalPattern(normalized_path) == Contains(normalized_path, <<".", ".">>)

\* lines 136-143: the per-component rejections
BadPart(part) ==
  \/ part \in {<<".", ".">>, <<".">>, <<>>}
  \/ StartsWith(part, <<".", ".">>)
  \/ IsAbs(part)
  \/ Contains(part, <<":">>)
  \/ \E k \in 1..Len(part) : Ord(part[k]) < 32 /\ part[k] # "\t"

\* lines 146-155: resolve and compare with the extraction directory
WithinBounds(normalized_path, dest_dir) ==
  LET dir             == Abspath(dest_dir)
      member_abs_path == Abspath(PathJoin(dir, normalized_path))
  IN /\ CommonPath(member_abs_path, dir) = dir
     /\ (StartsWith(member_abs_path, dir \o <<"/">>) \/ member_abs_path = dir)

\* a validator that trusts the unresolved join of directory and path
IsSafePathUnresolved(member_path, dest_dir) ==
  /\ ~ObviouslyDangerous(member_path)
  /\ StartsWith(PathJoin(Abspath(dest_dir), NormalizeSeparators(member_path)),
                Abspath(dest_dir))

\* a validator that looks for the traversal pattern before normalising the
\* separators and only rejects the components ".."
IsSafePathDotDotSlash(member_path, dest_dir) ==
  /\ ~ObviouslyDangerous(member_path)
  /\ ~Contains(member_path, <<".", ".", "/">>)
  /\ \A k \in 1..Len(PathParts(NormalizeSeparators(member_path))) :
       PathParts(NormalizeSeparators(member_path))[k] # <<".", ".">>
  /\ WithinBounds(NormalizeSeparators(member_path), dest_dir)

IsSafePath(member_path, dest_dir) ==
  /\ ~ObviouslyDangerous(member_path)
  /\ ~HasTraversalPattern(NormalizeSeparators(member_path))
  /\ \A k \in 1..Len(PathParts(NormalizeSeparators(member_path))) :
       ~BadPart(PathParts(NormalizeSeparators(member_path))[k])
  /\ WithinBounds(NormalizeSeparators(member_path), dest_dir)

(* ------------------------------ archives ------------------------------- *)

\* tarfile's member types: regular file, directory, symbolic link, hard link
REGTYPE == "REGTYPE"
DIRTYPE == "DIRTYPE"
SYMTYPE == "SYMTYPE"
LNKTYPE == "LNKTYPE"

\* the type tests a tarfile.TarInfo object offers: a call of any other
\* attribute raises AttributeError
TarInfoMethods ==
  { "isreg", "isfile", "isdir", "issym", "islnk", "ischr", "isblk", "isfifo",
    "isdev", "issparse" }

\* line 216: the fallback branch's ceiling on a regular file's declared size
SizeLimit == 100 * 1024 * 1024

File(name, size)    == [name |-> name, type |-> REGTYPE, linkname |-> <<>>, size |-> size]
Dir(name)           == [name |-> name, type |-> DIRTYPE, linkname |-> <<>>, size |-> 0]
Sym(name, linkname) == [name |-> name, type |-> SYMTYPE, linkname |-> linkname, size |-> 0]
Lnk(name, linkname) == [name |-> name, type |-> LNKTYPE, linkname |-> linkname, size |-> 0]

\* The members archives are built from.  "r" plays the archive's root
\* directory (tarfile strips a directory's trailing slash from its name).
MemberPool ==
  { Dir(<<"r">>),
    File(<<"r", "/", "a">>, 1),
    File(<<"r", "/", "s", "/", "a">>, 1),
    File(<<"r", "/", ".", ".", "/", "e">>, 1),
    File(<<"r", "b", "/", "f">>, 1),
    File(<<"q", "/", "f">>, 1),
    File(<<"/", "e">>, 1),
    File(<<"r", "/", "b">>, SizeLimit),
    File(<<"r", "/", "c">>, SizeLimit + 1),
    File(<<"r", "/", "d">>, 200 * 1024 * 1024),
    Sym(<<"r", "/", "l">>, <<"a">>),
    Sym(<<"r", "/", "m">>, <<".", ".", "/", ".", ".", "/", "e">>),
    Sym(<<"r", "/", "n">>, <<>>),
    Lnk(<<"r", "/", "h">>, <<"/", "e">>),
    Lnk(<<"r", "/", "k">>, <<"r", "/", "a">>) }

\* every archive: a member list of at most MaxMembers members
Archives == UNION { [1..n -> MemberPool] : n \in 0..MaxMembers }

\* the extract_dir arguments: an absolute and a relative directory
Dests == { <<"/", "t">>, <<"t">> }

\* the candidate paths and destination roots the validator is applied to
Alphabet == { "a", ".", "/", "\\", ":", "\n" }
Candidates == UNION { [1..n -> Alphabet] : n \in 0..MaxLen }
Roots == { <<"/">>, <<"/", "t">>, <<"t">>, <<"/", "t", "/">> }

(* ------------------------------- state --------------------------------- *)

VARIABLES
  candidate,     \* is_safe_path: the member_path argument
  root,          \* is_safe_path: the extract_dir argument
  verdict,       \* is_safe_path: "unchecked", or the value returned ("True", "False")
  pc,            \* extract_tarball: position in the function
  archive,       \* the member list stored in the tarball (input, never changed)
  dest,          \* the extract_dir argument (input)
  has_filter,    \* whether tarfile's extract accepts filter='data' (input)
  extract_dir,   \* line 166: the absolute extraction directory
  dest_created,  \* line 167: os.makedirs has run
  members,       \* line 170: the TarInfo objects (their names are rewritten in place)
  root_dir,      \* line 175
  i,             \* index of the next member the validation loop visits
  safe_members,  \* line 179: indices (references) of the accepted TarInfo objects
  j,             \* index into safe_members of the next member to extract
  attempted,     \* indices of the members tfile.extract was run on, in order
  written,       \* the paths tfile.extract has created
  failed_members,\* indices of the members on which tfile.extract raised
  error          \* the exception that left extract_tarball, "none" if none

VARIABLES
  run,           \* which call of extract_tarball on the same arguments this is
  first_written, \* the paths that existed when the first call ended
  first_error    \* the exception that left the first call, "none" if none

VARIABLES
  main_pc,       \* main: position ("idle" when extract_tarball is called directly)
  main_ret,      \* main: the value returned, -1 while there is none
  exit_status    \* the exit status of the script, -1 while it runs

VARIABLES
  environ,        \* os.environ: whether XZ_VERSION is set, and its value (input)
  config_file,    \* what xz-version.json is on disk (input)
  latest_release, \* what the GitHub latest-release request yields (input)
  ver_pc,         \* determine_version: position ("idle" when it is not called)
  version,        \* determine_version: the value returned
  consulted,      \* the sources read so far: "github", "xz-version.json"
  origin          \* the statement the returned value comes from

VARIABLES
  platform_system, \* build_xz_with_cmake: platform.system() (input)
  build_environ,   \* build_xz_with_cmake: RUNTIME_LINK, ENABLE_THREAD_SUPPORT, USE_GLOBAL (input)
  build_pc,        \* build_xz_with_cmake.main: position ("idle" when it is not called)
  steps_run,       \* the build steps called so far, in order
  results,         \* what each of them did: "True", "False" or "raises"
  success,         \* line 363: the value of the and-chain
  build_ret        \* the value main returned, -1 while there is none

vars == << candidate, root, verdict, pc, archive, dest, has_filter, extract_dir,
           dest_created, members, root_dir, i, safe_members, j, attempted,
           written, failed_members, error, run, first_written, first_error,
           main_pc, main_ret, exit_status, environ, config_file,
           latest_release, ver_pc, version, consulted, origin,
           platform_system, build_environ, build_pc, steps_run, results,
           success, build_ret >>

callVars == << run, first_written, first_error >>

scriptVars == << main_pc, main_ret, exit_status >>

\* the state outside is_safe_path and extract_tarball
verVars == << environ, config_file, latest_release, ver_pc, version, consulted,
             origin >>

buildVars == << platform_system, build_environ, build_pc, steps_run, results,
               success, build_ret >>

otherVars == << callVars, scriptVars, verVars, buildVars >>

safeVars == << candidate, root, verdict >>

tarVars == << pc, archive, dest, has_filter, extract_dir, dest_created, members,
              root_dir, i, safe_members, j, attempted, written, failed_members,
              error >>

(* --------------------------- extract_tarball --------------------------- *)

\* line 175: members[0].name.split('/')[0]
RootDirOf(ms) == SplitSlash(ms[1].name)[1]

\* line 182: member.name.startswith(root_dir)
InRootDirectory(name, rd) == StartsWith(name, rd)

\* line 186: member.name.replace(root_dir, 'xz', 1)
NewName(name, rd) == ReplaceFirst(name, rd, <<"x", "z">>)

\* lines 194-198: a link (member.islink() or member.issym()) whose non-empty
\* target fails is_safe_path
LinkTargetRejected(member, dir) ==
  /\ member.type \in {LNKTYPE, SYMTYPE}
  /\ member.linkname # <<>>
  /\ ~IsSafePath(member.linkname, dir)

\* line 216: member.isfile() and member.size > 100 * 1024 * 1024
Oversized(member) == member.type = REGTYPE /\ member.size > SizeLimit

\* the path tfile.extract(member, extract_dir) creates
TargetPath(dir, name) == PathJoin(dir, name)

TarInit ==
  /\ pc = "start"
  /\ archive \in Archives
  /\ dest \in Dests
  /\ has_filter \in BOOLEAN
  /\ extract_dir = <<>>
  /\ dest_created = FALSE
  /\ members = <<>>
  /\ root_dir = <<>>
  /\ i = 1
  /\ safe_members = <<>>
  /\ j = 1
  /\ attempted = <<>>
  /\ written = {}
  /\ failed_members = {}
  /\ error = "none"

\* lines 166-167 with os.makedirs called without exist_ok=True: an existing
\* directory raises FileExistsError
MakeDirsNoExistOk ==
  /\ pc = "start"
  /\ extract_dir' = Abspath(dest)
  /\ IF dest_created
     THEN pc' = "raised" /\ error' = "FileExistsError"
     ELSE pc' = "open" /\ UNCHANGED error
  /\ dest_created' = TRUE
  /\ UNCHANGED << archive, dest, has_filter, members, root_dir, i, safe_members,
                  j, attempted, written, failed_members >>

\* lines 166-167: make extract_dir absolute and create it; exist_ok=True
\* accepts a directory that already exists
MakeDirs ==
  /\ pc = "start"
  /\ extract_dir' = Abspath(dest)
  /\ dest_created' = TRUE
  /\ pc' = "open"
  /\ UNCHANGED << archive, dest, has_filter, members, root_dir, i, safe_members,
                  j, attempted, written, failed_members, error >>

\* lines 169-176: open the tarball (which may fail), read the member list,
\* refuse an empty one, take the root directory from the first member
OpenArchive ==
  /\ pc = "open"
  /\ \E openable \in BOOLEAN :
       IF ~openable
       THEN /\ pc' = "raised"
            /\ error' = "ArchiveOpen"
            /\ UNCHANGED << members, root_dir >>
       ELSE IF archive = <<>>
       THEN /\ pc' = "raised"
            /\ error' = "Empty tarball"
            /\ UNCHANGED << members, root_dir >>
       ELSE /\ pc' = "validate"
            /\ members' = archive
            /\ root_dir' = RootDirOf(archive)
            /\ UNCHANGED error
  /\ UNCHANGED << archive, dest, has_filter, extract_dir, dest_created, i,
                  safe_members, j, attempted, written, failed_members >>

\* the validation loop body without the is_safe_path test of lines 189-191
\* and without the link block of lines 193-198
ValidateMemberRootTestOnly ==
  /\ pc = "validate"
  /\ i <= Len(members)
  /\ LET member   == members[i]
         new_name == NewName(member.name, root_dir)
     IN IF ~InRootDirectory(member.name, root_dir)
        THEN UNCHANGED << members, safe_members >>
        ELSE /\ members' = [members EXCEPT ![i].name = new_name]
             /\ safe_members' = Append(safe_members, i)
  /\ i' = i + 1
  /\ UNCHANGED << pc, archive, dest, has_filter, extract_dir, dest_created,
                  root_dir, j, attempted, written, failed_members, error >>

\* the validation loop body without the link block of lines 193-198
ValidateMemberNoLinkBlock ==
  /\ pc = "validate"
  /\ i <= Len(members)
  /\ LET member   == members[i]
         new_name == NewName(member.name, root_dir)
     IN IF \/ ~InRootDirectory(member.name, root_dir)
           \/ ~IsSafePath(new_name, extract_dir)
        THEN UNCHANGED << members, safe_members >>
        ELSE /\ members' = [members EXCEPT ![i].name = new_name]
             /\ safe_members' = Append(safe_members, i)
  /\ i' = i + 1
  /\ UNCHANGED << pc, archive, dest, has_filter, extract_dir, dest_created,
                  root_dir, j, attempted, written, failed_members, error >>

\* lines 180-203: one iteration of the validation loop.  A member that
\* passes the root test and is_safe_path reaches line 194, whose first call
\* is member.islink(): TarInfo has no such method (the hard-link test is
\* islnk), so the call raises AttributeError, which nothing in extract_tarball
\* catches.  While the loop is at a member, i is the index of that member.
ValidateMember ==
  /\ pc = "validate"
  /\ i <= Len(members)
  /\ LET member   == members[i]
         new_name == NewName(member.name, root_dir)
     IN IF \/ ~InRootDirectory(member.name, root_dir)
           \/ ~IsSafePath(new_name, extract_dir)
        THEN \* lines 182-191: skipped
             /\ i' = i + 1
             /\ UNCHANGED << pc, error, members, safe_members >>
        ELSE IF "islink" \notin TarInfoMethods
        THEN \* line 194
             /\ pc' = "raised"
             /\ error' = "AttributeError"
             /\ UNCHANGED << i, members, safe_members >>
        ELSE IF LinkTargetRejected(member, extract_dir)
        THEN \* lines 196-198: skipped
             /\ i' = i + 1
             /\ UNCHANGED << pc, error, members, safe_members >>
        ELSE \* lines 201-203
             /\ i' = i + 1
             /\ members' = [members EXCEPT ![i].name = new_name]
             /\ safe_members' = Append(safe_members, i)
             /\ UNCHANGED << pc, error >>
  /\ UNCHANGED << archive, dest, has_filter, extract_dir, dest_created,
                  root_dir, j, attempted, written, failed_members >>

\* lines 205-206: after the loop, refuse an empty plan
CheckSafeMembers ==
  /\ pc = "validate"
  /\ i > Len(members)
  /\ IF safe_members = <<>>
     THEN pc' = "raised" /\ error' = "No safe members to extract"
     ELSE pc' = "extract" /\ UNCHANGED error
  /\ UNCHANGED << archive, dest, has_filter, extract_dir, dest_created, members,
                  root_dir, i, safe_members, j, attempted, written,
                  failed_members >>

\* lines 209-222: one iteration of the extraction loop.  ok is whether
\* tfile.extract succeeds on this member or raises (filter rejection,
\* permission denied, disk full, missing link target).
ExtractMember ==
  /\ pc = "extract"
  /\ j <= Len(safe_members)
  /\ LET idx    == safe_members[j]
         member == members[idx]
     IN \E ok \in BOOLEAN :
          IF has_filter
          THEN \* line 212; a failure is caught at line 220
               /\ attempted' = Append(attempted, idx)
               /\ written' = IF ok THEN written \cup {TargetPath(extract_dir, member.name)}
                                   ELSE written
               /\ failed_members' = IF ok THEN failed_members
                                          ELSE failed_members \cup {idx}
               /\ j' = j + 1
               /\ UNCHANGED << pc, error >>
          ELSE IF Oversized(member)
          THEN \* line 213 catches the TypeError, lines 216-218 skip the member
               /\ j' = j + 1
               /\ UNCHANGED << pc, error, attempted, written, failed_members >>
          ELSE \* line 219: inside the handler, so a failure leaves the function
               /\ attempted' = Append(attempted, idx)
               /\ IF ok
                  THEN /\ written' = written \cup {TargetPath(extract_dir, member.name)}
                       /\ j' = j + 1
                       /\ UNCHANGED << pc, error, failed_members >>
                  ELSE /\ pc' = "raised"
                       /\ error' = "ExtractError"
                       /\ failed_members' = failed_members \cup {idx}
                       /\ UNCHANGED << written, j >>
  /\ UNCHANGED << archive, dest, has_filter, extract_dir, dest_created, members,
                  root_dir, i, safe_members >>

\* line 224: the loop is over, extract_tarball returns
Finish ==
  /\ pc = "extract"
  /\ j > Len(safe_members)
  /\ pc' = "returned"
  /\ UNCHANGED << archive, dest, has_filter, extract_dir, dest_created, members,
                  root_dir, i, safe_members, j, attempted, written,
                  failed_members, error >>

\* the first call
CallInit ==
  /\ run = 1
  /\ first_written = {}
  /\ first_error = "none"

\* the script is not running: extract_tarball is called directly
ScriptIdle ==
  /\ main_pc = "idle"
  /\ main_ret = -1
  /\ exit_status = -1

\* determine_version is not called
VersionIdle ==
  /\ environ = [set |-> FALSE, value |-> <<>>]
  /\ config_file = [state |-> "missing", has_version |-> FALSE, version |-> <<>>]
  /\ latest_release = [ok |-> FALSE, tag_name |-> <<>>]
  /\ ver_pc = "idle"
  /\ version = <<>>
  /\ consulted = {}
  /\ origin = "none"

\* an environment variable that is not set
Unset == [set |-> FALSE, value |-> <<>>]

\* build_xz_with_cmake.main is not called
BuildIdle ==
  /\ platform_system = "Linux"
  /\ build_environ = [RUNTIME_LINK |-> Unset, ENABLE_THREAD_SUPPORT |-> Unset,
                      USE_GLOBAL |-> Unset]
  /\ build_pc = "idle"
  /\ steps_run = <<>>
  /\ results = <<>>
  /\ success = FALSE
  /\ build_ret = -1

OtherInit == CallInit /\ ScriptIdle /\ VersionIdle /\ BuildIdle

Init ==
  /\ TarInit
  /\ candidate = <<>>
  /\ root = <<"/">>
  /\ verdict = "unchecked"
  /\ OtherInit

\* every step of extract_tarball, as written
FullNext ==
  \/ (MakeDirs /\ UNCHANGED << safeVars, otherVars >>)
  \/ (OpenArchive /\ UNCHANGED << safeVars, otherVars >>)
  \/ (ValidateMember /\ UNCHANGED << safeVars, otherVars >>)
  \/ (CheckSafeMembers /\ UNCHANGED << safeVars, otherVars >>)
  \/ (ExtractMember /\ UNCHANGED << safeVars, otherVars >>)
  \/ (Finish /\ UNCHANGED << safeVars, otherVars >>)

FullSpec == Init /\ [][FullNext]_vars

\* Under FullSpec the plan is empty whenever line 205 is reached, so the
\* extraction loop of lines 209-222 and the return of line 224 never run.
ExtractionLoopUnreachable ==
  /\ pc \notin {"extract", "returned"}
  /\ safe_members = <<>>

\* the steps extract_tarball can take: FullNext without the two steps that
\* ExtractionLoopUnreachable shows are never enabled
Next ==
  \/ (MakeDirs /\ UNCHANGED << safeVars, otherVars >>)
  \/ (OpenArchive /\ UNCHANGED << safeVars, otherVars >>)
  \/ (ValidateMember /\ UNCHANGED << safeVars, otherVars >>)
  \/ (CheckSafeMembers /\ UNCHANGED << safeVars, otherVars >>)

Spec == Init /\ [][Next]_vars

(* ------------------------ two calls in succession --------------------- *)

\* extract_tarball is called again with the same arguments after the first
\* call has ended: the locals of lines 166-179 are fresh, the filesystem
\* (the destination root and the paths written) is as the first call left it
Rerun ==
  /\ run = 1
  /\ pc \in {"returned", "raised"}
  /\ run' = 2
  /\ first_written' = written
  /\ first_error' = error
  /\ pc' = "start"
  /\ extract_dir' = <<>>
  /\ members' = <<>>
  /\ root_dir' = <<>>
  /\ i' = 1
  /\ safe_members' = <<>>
  /\ j' = 1
  /\ attempted' = <<>>
  /\ failed_members' = {}
  /\ error' = "none"
  /\ UNCHANGED << archive, dest, has_filter, dest_created, written >>

TwiceNext ==
  \/ Next
  \/ (Rerun /\ UNCHANGED << safeVars, scriptVars, verVars, buildVars >>)

TwiceSpec == Init /\ [][TwiceNext]_vars

(* ------------------------------ the script ----------------------------- *)

\* the script is started: main has not yet called extract_tarball
MainInit ==
  /\ pc = "idle"
  /\ archive \in Archives
  /\ dest \in Dests
  /\ has_filter \in BOOLEAN
  /\ extract_dir = <<>>
  /\ dest_created = FALSE
  /\ members = <<>>
  /\ root_dir = <<>>
  /\ i = 1
  /\ safe_members = <<>>
  /\ j = 1
  /\ attempted = <<>>
  /\ written = {}
  /\ failed_members = {}
  /\ error = "none"
  /\ candidate = <<>>
  /\ root = <<"/">>
  /\ verdict = "unchecked"
  /\ CallInit
  /\ VersionIdle
  /\ BuildIdle
  /\ main_pc = "prepare"
  /\ main_ret = -1
  /\ exit_status = -1

\* lines 227-295: everything main does before extract_tarball runs.
\* parse_args leaves the script with status 2 on a usage error (SystemExit
\* is not an Exception); a suspicious pattern in an argument returns 1
\* (lines 272-276); version lookup, validate_version and download_tarball
\* may raise; otherwise line 285 creates the destination and line 295 calls
\* extract_tarball.
MainPrepare ==
  /\ main_pc = "prepare"
  /\ \E outcome \in {"usage", "suspicious", "raises", "proceeds"} :
       CASE outcome = "usage" ->
              /\ main_pc' = "exited"
              /\ exit_status' = 2
              /\ UNCHANGED << main_ret, pc, dest_created >>
         [] outcome = "suspicious" ->
              /\ main_pc' = "returned"
              /\ main_ret' = 1
              /\ UNCHANGED << exit_status, pc, dest_created >>
         [] outcome = "raises" ->
              /\ main_pc' = "raised"
              /\ UNCHANGED << main_ret, exit_status, pc, dest_created >>
         [] outcome = "proceeds" ->
              /\ main_pc' = "extract"
              /\ pc' = "start"
              /\ dest_created' = TRUE
              /\ UNCHANGED << main_ret, exit_status >>
  /\ UNCHANGED << archive, dest, has_filter, extract_dir, members, root_dir, i,
                  safe_members, j, attempted, written, failed_members, error >>
  /\ UNCHANGED << safeVars, callVars, verVars, buildVars >>

\* lines 295-298: extract_tarball has ended; an exception goes through main,
\* a normal return is followed by return 0
MainAfterExtract ==
  /\ main_pc = "extract"
  /\ pc \in {"returned", "raised"}
  /\ IF pc = "raised"
     THEN main_pc' = "raised" /\ UNCHANGED main_ret
     ELSE main_pc' = "returned" /\ main_ret' = 0
  /\ UNCHANGED << exit_status, tarVars, safeVars, callVars, verVars, buildVars >>

\* lines 300-308 with handlers that leave the script with status 0
ScriptExitAlwaysZero ==
  /\ main_pc \in {"returned", "raised"}
  /\ main_pc' = "exited"
  /\ exit_status' = IF main_pc = "returned" THEN main_ret ELSE 0
  /\ UNCHANGED << main_ret, tarVars, safeVars, callVars, verVars, buildVars >>

\* lines 300-308: sys.exit(main()); KeyboardInterrupt and Exception both
\* end the script with status 1
ScriptExit ==
  /\ main_pc \in {"returned", "raised"}
  /\ main_pc' = "exited"
  /\ exit_status' = IF main_pc = "returned" THEN main_ret ELSE 1
  /\ UNCHANGED << main_ret, tarVars, safeVars, callVars, verVars, buildVars >>

MainNext ==
  \/ MainPrepare
  \/ Next
  \/ MainAfterExtract
  \/ ScriptExit

MainSpec == MainInit /\ [][MainNext]_vars

(* --------------------------- determine_version ------------------------- *)

\* the version strings of the source, as character sequences
V540 == <<"v", "5", ".", "4", ".", "0">>
V581 == <<"v", "5", ".", "8", ".", "1">>
LatestWord == <<"l", "a", "t", "e", "s", "t">>

\* Python's None as the value of a JSON null
NoneValue == <<"None">>

\* the characters str.strip() removes, among those of the model
Whitespace == {" ", "\t", "\n"}

\* str.strip(): the string without its leading and trailing whitespace
Strip(str) ==
  LET keep == { k \in 1..Len(str) : str[k] \notin Whitespace }
  IN IF keep = {}
     THEN <<>>
     ELSE SubSeq(str,
                 CHOOSE a \in keep : \A k \in keep : a <= k,
                 CHOOSE b \in keep : \A k \in keep : k <= b)

\* str.lower() on the letters of the model
LowerChar(c) ==
  CASE c = "A" -> "a" [] c = "E" -> "e" [] c = "F" -> "f" [] c = "L" -> "l"
    [] c = "N" -> "n" [] c = "O" -> "o" [] c = "R" -> "r" [] c = "S" -> "s"
    [] c = "T" -> "t" [] c = "U" -> "u" [] c = "V" -> "v" [] c = "Y" -> "y"
    [] OTHER -> c

Lower(str) == [k \in 1..Len(str) |-> LowerChar(str[k])]

\* the values XZ_VERSION takes
EnvValues ==
  { <<>>,
    <<" ">>,
    <<" ", "\t">>,
    LatestWord,
    <<"L", "A", "T", "E", "S", "T">>,
    <<" ", "L", "a", "t", "e", "s", "t", "\n">>,
    <<"l", "a", "t", "e", "s", "t", "s">>,
    <<"v", "1">>,
    <<"V", "1">>,
    <<" ", "v", "1", " ">>,
    <<"v", " ", "1">> }

Environs ==
  { [set |-> FALSE, value |-> <<>>] } \cup
  { [set |-> TRUE, value |-> v] : v \in EnvValues }

\* what xz-version.json can be: absent; present but open or read fails with
\* an OSError; not valid JSON; bytes that are not valid text; valid JSON that
\* is not an object; an object without or with a "version" key
ConfigFiles ==
  { [state |-> st, has_version |-> FALSE, version |-> <<>>] :
      st \in {"missing", "ioerror", "invalid_json", "bad_encoding",
              "not_object", "object"} } \cup
  { [state |-> "object", has_version |-> TRUE, version |-> v] :
      v \in { <<"v", "2">>, V540, <<>>, NoneValue } }

LatestReleases ==
  { [ok |-> TRUE, tag_name |-> <<"v", "9">>],
    [ok |-> FALSE, tag_name |-> <<>>] }

\* lines 48-60: the tag of the latest release, 'v5.8.1' when the request or
\* the decoding of its answer fails
GetLatestVersion(release) ==
  IF release.ok THEN release.tag_name ELSE V581

\* lines 41-46: the fallback configuration
FallbackConfig ==
  [raised |-> "none", from_file |-> FALSE, has_version |-> TRUE, version |-> V540]

\* lines 27-46: load_version_config.  JSONDecodeError and IOError are caught
\* (line 38); UnicodeDecodeError from the read, and AttributeError from
\* config.get at line 36 when the JSON value is not an object, are not.
LoadVersionConfig(file) ==
  CASE file.state = "missing" -> FallbackConfig
    [] file.state \in {"ioerror", "invalid_json"} -> FallbackConfig
    [] file.state = "bad_encoding" ->
         [raised |-> "UnicodeDecodeError", from_file |-> FALSE,
          has_version |-> FALSE, version |-> <<>>]
    [] file.state = "not_object" ->
         [raised |-> "AttributeError", from_file |-> FALSE,
          has_version |-> FALSE, version |-> <<>>]
    [] OTHER ->
         [raised |-> "none", from_file |-> TRUE,
          has_version |-> file.has_version, version |-> file.version]

VersionInit ==
  /\ environ \in Environs
  /\ config_file \in ConfigFiles
  /\ latest_release \in LatestReleases
  /\ ver_pc = "start"
  /\ version = <<>>
  /\ consulted = {}
  /\ origin = "none"
  /\ candidate = <<>>
  /\ root = <<"/">>
  /\ verdict = "unchecked"
  /\ pc = "idle"
  /\ archive = <<>>
  /\ dest = <<"/", "t">>
  /\ has_filter = TRUE
  /\ extract_dir = <<>>
  /\ dest_created = FALSE
  /\ members = <<>>
  /\ root_dir = <<>>
  /\ i = 1
  /\ safe_members = <<>>
  /\ j = 1
  /\ attempted = <<>>
  /\ written = {}
  /\ failed_members = {}
  /\ error = "none"
  /\ CallInit
  /\ ScriptIdle
  /\ BuildIdle

\* lines 65-73 with the environment value used as it is, not stripped
ReadEnvironmentNoStrip ==
  /\ ver_pc = "start"
  /\ LET env_version == IF environ.set THEN environ.value ELSE <<>>
     IN IF env_version # <<>>
        THEN IF Lower(env_version) = LatestWord
             THEN /\ version' = GetLatestVersion(latest_release)
                  /\ consulted' = consulted \cup {"github"}
                  /\ origin' = "latest"
                  /\ ver_pc' = "returned"
             ELSE /\ version' = env_version
                  /\ origin' = "environment"
                  /\ ver_pc' = "returned"
                  /\ UNCHANGED consulted
        ELSE /\ ver_pc' = "config"
             /\ UNCHANGED << version, consulted, origin >>
  /\ UNCHANGED << environ, config_file, latest_release >>
  /\ UNCHANGED << tarVars, safeVars, callVars, scriptVars, buildVars >>

\* lines 65-73: os.environ.get('XZ_VERSION', '').strip(); a non-empty value
\* is returned, or resolved by get_latest_version when its lower-case form
\* is 'latest'
ReadEnvironment ==
  /\ ver_pc = "start"
  /\ LET env_version == Strip(IF environ.set THEN environ.value ELSE <<>>)
     IN IF env_version # <<>>
        THEN IF Lower(env_version) = LatestWord
             THEN /\ version' = GetLatestVersion(latest_release)
                  /\ consulted' = consulted \cup {"github"}
                  /\ origin' = "latest"
                  /\ ver_pc' = "returned"
             ELSE /\ version' = env_version
                  /\ origin' = "environment"
                  /\ ver_pc' = "returned"
                  /\ UNCHANGED consulted
        ELSE /\ ver_pc' = "config"
             /\ UNCHANGED << version, consulted, origin >>
  /\ UNCHANGED << environ, config_file, latest_release >>
  /\ UNCHANGED << tarVars, safeVars, callVars, scriptVars, buildVars >>

\* lines 76-79: load_version_config() and config.get('version', 'v5.4.0')
UseConfig ==
  /\ ver_pc = "config"
  /\ consulted' = consulted \cup {"xz-version.json"}
  /\ LET config == LoadVersionConfig(config_file)
     IN IF config.raised # "none"
        THEN /\ ver_pc' = "raised"
             /\ UNCHANGED << version, origin >>
        ELSE /\ ver_pc' = "returned"
             /\ version' = IF config.has_version THEN config.version ELSE V540
             /\ origin' = IF config.from_file /\ config.has_version
                          THEN "file" ELSE "fallback"
  /\ UNCHANGED << environ, config_file, latest_release >>
  /\ UNCHANGED << tarVars, safeVars, callVars, scriptVars, buildVars >>

VersionNext ==
  \/ ReadEnvironment
  \/ UseConfig

VersionSpec == VersionInit /\ [][VersionNext]_vars

(* ----------------------- build_xz_with_cmake.main --------------------- *)

\* an environment variable set to the value v
SetTo(v) == [set |-> TRUE, value |-> v]

StaticWord == <<"s", "t", "a", "t", "i", "c">>
SharedWord == <<"s", "h", "a", "r", "e", "d">>
YesWord == <<"y", "e", "s">>
NoWord == <<"n", "o">>
TrueWord == <<"t", "r", "u", "e">>
FalseWord == <<"f", "a", "l", "s", "e">>

\* the environments main is started with
BuildEnvirons ==
  [ RUNTIME_LINK :
      { Unset, SetTo(StaticWord), SetTo(SharedWord),
        SetTo(<<"S", "t", "a", "t", "i", "c">>) },
    ENABLE_THREAD_SUPPORT :
      { Unset, SetTo(YesWord), SetTo(<<"N", "o">>), SetTo(<<"2">>) },
    USE_GLOBAL :
      { Unset, SetTo(TrueWord), SetTo(<<"F", "a", "l", "s", "e">>), SetTo(NoWord) } ]

\* lines 311-336: the environment passes the validation of main
EnvironmentValid(env) ==
  /\ env.RUNTIME_LINK.set
  /\ env.ENABLE_THREAD_SUPPORT.set
  /\ env.USE_GLOBAL.set
  /\ env.RUNTIME_LINK.value \in {StaticWord, SharedWord}
  /\ Lower(env.ENABLE_THREAD_SUPPORT.value)
       \in {YesWord, NoWord, TrueWord, FalseWord, <<"1">>, <<"0">>}
  /\ Lower(env.USE_GLOBAL.value) \in {TrueWord, FalseWord}

BuildInit ==
  /\ platform_system \in {"Linux", "Darwin", "Windows"}
  /\ build_environ \in BuildEnvirons
  /\ build_pc = "prepare"
  /\ steps_run = <<>>
  /\ results = <<>>
  /\ success = FALSE
  /\ build_ret = -1
  /\ candidate = <<>>
  /\ root = <<"/">>
  /\ verdict = "unchecked"
  /\ pc = "idle"
  /\ archive = <<>>
  /\ dest = <<"/", "t">>
  /\ has_filter = TRUE
  /\ extract_dir = <<>>
  /\ dest_created = FALSE
  /\ members = <<>>
  /\ root_dir = <<>>
  /\ i = 1
  /\ safe_members = <<>>
  /\ j = 1
  /\ attempted = <<>>
  /\ written = {}
  /\ failed_members = {}
  /\ error = "none"
  /\ CallInit
  /\ ScriptIdle
  /\ VersionIdle

\* what no step of the build changes
BuildFrame ==
  /\ UNCHANGED << platform_system, build_environ >>
  /\ UNCHANGED << tarVars, safeVars, callVars, scriptVars, verVars >>

\* lines 280-360: everything main does before the build steps: parse_args
\* (which leaves by SystemExit on a usage error), the validation of the
\* environment, the test for CMakeLists.txt, detect_cmake; each failed test
\* returns 1
BuildPrepare ==
  /\ build_pc = "prepare"
  /\ \E usage_ok \in BOOLEAN, cmake_lists \in BOOLEAN, cmake_found \in BOOLEAN :
       IF ~usage_ok
       THEN build_pc' = "raised" /\ UNCHANGED build_ret
       ELSE IF EnvironmentValid(build_environ) /\ cmake_lists /\ cmake_found
       THEN build_pc' = "configure" /\ UNCHANGED build_ret
       ELSE build_pc' = "returned" /\ build_ret' = 1
  /\ UNCHANGED << steps_run, results, success >>
  /\ BuildFrame

\* one operand of the and-chain of lines 363-371 has been evaluated: the
\* chain goes on to the next operand when the value is true, ends with the
\* value when it is false or when it is the last operand, and is left by
\* the exception when the step raises
StepDone(name, outcome, next) ==
  /\ steps_run' = Append(steps_run, name)
  /\ results' = Append(results, outcome)
  /\ IF outcome = "raises"
     THEN build_pc' = "raised" /\ UNCHANGED success
     ELSE IF outcome = "False"
     THEN build_pc' = "result" /\ success' = FALSE
     ELSE build_pc' = next /\ success' = (next = "result")
  /\ UNCHANGED build_ret
  /\ BuildFrame

\* lines 42-133: configure_cmake; CalledProcessError gives False, any other
\* error of subprocess.run (OSError) is not caught
ConfigureCmake ==
  /\ build_pc = "configure"
  /\ \E outcome \in {"True", "False", "raises"} :
       StepDone("configure", outcome, "build")

\* build_cmake called with its value not used by the chain
BuildCmakeValueIgnored ==
  /\ build_pc = "build"
  /\ \E outcome \in {"True", "False", "raises"} :
       /\ steps_run' = Append(steps_run, "build")
       /\ results' = Append(results, outcome)
       /\ IF outcome = "raises"
          THEN build_pc' = "raised"
          ELSE build_pc' = "install"
       /\ UNCHANGED << success, build_ret >>
       /\ BuildFrame

\* lines 135-152: build_cmake
BuildCmake ==
  /\ build_pc = "build"
  /\ \E outcome \in {"True", "False", "raises"} :
       StepDone("build", outcome, "install")

\* lines 154-174: install_cmake; os.makedirs and subprocess.run may raise
\* an OSError
InstallCmake ==
  /\ build_pc = "install"
  /\ \E outcome \in {"True", "False", "raises"} :
       StepDone("install", outcome, "fix_windows")

\* lines 176-199: fix_windows_lib_names; True at once off Windows, on
\* Windows by whether liblzma.lib exists or can be copied from lzma.lib
FixWindowsLibNames ==
  /\ build_pc = "fix_windows"
  /\ \E lib_ok \in BOOLEAN :
       StepDone("fix_windows",
                IF platform_system # "Windows" \/ lib_ok THEN "True" ELSE "False",
                "fix_macos")

\* lines 201-244: verify_and_fix_dylib_install_name; True at once off
\* macOS, on macOS by whether the dylib exists and otool and
\* install_name_tool succeed (every exception is caught)
VerifyAndFixDylibInstallName ==
  /\ build_pc = "fix_macos"
  /\ \E dylib_ok \in BOOLEAN :
       StepDone("fix_macos",
                IF platform_system # "Darwin" \/ dylib_ok THEN "True" ELSE "False",
                "verify")

\* lines 246-278: verify_build; False when an expected file is missing
VerifyBuild ==
  /\ build_pc = "verify"
  /\ \E files_present \in BOOLEAN :
       StepDone("verify", IF files_present THEN "True" ELSE "False", "result")

\* lines 373-379: return 0 if success else 1
BuildResult ==
  /\ build_pc = "result"
  /\ build_pc' = "returned"
  /\ build_ret' = IF success THEN 0 ELSE 1
  /\ UNCHANGED << steps_run, results, success >>
  /\ BuildFrame

BuildNext ==
  \/ BuildPrepare
  \/ ConfigureCmake
  \/ BuildCmake
  \/ InstallCmake
  \/ FixWindowsLibNames
  \/ VerifyAndFixDylibInstallName
  \/ VerifyBuild
  \/ BuildResult

BuildSpec == BuildInit /\ [][BuildNext]_vars

(* ----------------------- the validator on its own ---------------------- *)

SafeInit ==
  /\ candidate \in Candidates
  /\ root \in Roots
  /\ verdict = "unchecked"
  /\ pc = "idle"
  /\ archive = <<>>
  /\ dest = <<"/", "t">>
  /\ has_filter = TRUE
  /\ extract_dir = <<>>
  /\ dest_created = FALSE
  /\ members = <<>>
  /\ root_dir = <<>>
  /\ i = 1
  /\ safe_members = <<>>
  /\ j = 1
  /\ attempted = <<>>
  /\ written = {}
  /\ failed_members = {}
  /\ error = "none"
  /\ OtherInit

\* one call of is_safe_path(candidate, root)
CheckPath ==
  /\ verdict = "unchecked"
  /\ verdict' = IF IsSafePath(candidate, root) THEN "True" ELSE "False"
  /\ UNCHANGED << candidate, root >>
  /\ UNCHANGED << tarVars, otherVars >>

SafeNext == CheckPath

SafeSpec == SafeInit /\ [][SafeNext]_vars

(* ------------------------ claims: is_safe_path ------------------------- *)

\* the non-empty components of a path
Components(p) == SelectSeq(SplitSlash(p), LAMBDA c : c # <<>>)

\* path is dir itself or lies beneath it, component by component
AtOrBeneath(path, dir) ==
  LET pcs == Components(path)
      dcs == Components(dir)
  IN Len(dcs) <= Len(pcs) /\ SubSeq(pcs, 1, Len(dcs)) = dcs

\* the lexically resolved absolute path of dir joined with path
Resolved(dir, path) == NormPath(PathJoin(Abspath(dir), path))

\* C2: whenever is_safe_path(candidate, root) returns true, the lexically
\* resolved absolute path of root joined with the candidate (as given, and
\* with its backslashes read as separators) is root or lies beneath root.
C2_SafeStaysInside ==
  verdict = "True" =>
    /\ IsAbs(Resolved(root, candidate))
    /\ AtOrBeneath(Resolved(root, candidate), Abspath(root))
    /\ AtOrBeneath(Resolved(root, NormalizeSeparators(candidate)), Abspath(root))

\* a nested path was accepted below a root other than "/"
C2_Witness ==
  /\ verdict = "True"
  /\ Contains(candidate, <<"/">>)
  /\ root = <<"t">>
  /\ Resolved(root, candidate) = <<"/", "w", "/", "t", "/", "a", "/", "a">>

\* C3: for every root, is_safe_path returns false for a candidate that is
\* empty, begins with "/" or "\", or contains ".." once "\" is read as "/"
\* (which includes "../" and a benign name such as "a..a").
C3_DangerousRejected ==
  (/\ verdict # "unchecked"
   /\ \/ candidate = <<>>
      \/ (candidate # <<>> /\ candidate[1] \in {"/", "\\"})
      \/ \E k \in 1..(Len(candidate) - 1) :
           candidate[k] = "." /\ candidate[k + 1] = ".")
    => verdict = "False"

\* the benign file name "a..a" was rejected
C3_Witness ==
  /\ verdict = "False"
  /\ candidate = <<"a", ".", ".", "a">>
  /\ root = <<"/", "t">>

\* C4: is_safe_path returns false for every candidate in which, after
\* splitting on "/", some component is ".", "..", empty, or starts with "..".
C4_BadComponentRejected ==
  (/\ verdict # "unchecked"
   /\ \E k \in 1..Len(SplitSlash(NormalizeSeparators(candidate))) :
        LET comp == SplitSlash(NormalizeSeparators(candidate))[k]
        IN \/ comp \in {<<".">>, <<".", ".">>, <<>>}
           \/ StartsWith(comp, <<".", ".">>))
    => verdict = "False"

(* ----------------------- claims: extract_tarball ----------------------- *)

\* the set of elements of a sequence
Range(seq) == { seq[k] : k \in 1..Len(seq) }

\* the terminal positions of extract_tarball
Ended == pc \in {"returned", "raised"}

\* the root directory names the archives of the model can have
RootNames == { SplitSlash(m.name)[1] : m \in MemberPool }

\* a member's path with the leading root directory name rd replaced by "xz"
\* and the remainder kept verbatim
RewrittenFor(m, rd) == <<"x", "z">> \o SubSeq(m.name, Len(rd) + 1, Len(m.name))

\* the members, root directory names and destinations for which the
\* member's name begins with the root directory name and its rewritten path
\* passes is_safe_path (computed once for all states)
PathValidatedSet ==
  { <<t[1], t[2], t[3]>> :
      t \in { u \in MemberPool \X RootNames \X Dests :
                /\ StartsWith(u[1].name, u[2])
                /\ IsSafePath(RewrittenFor(u[1], u[2]), Abspath(u[3])) } }

\* the members and destinations for which the member is a link with a
\* non-empty target that is_safe_path refuses (computed once for all states)
UnsafeTargetSet ==
  { <<t[1], t[2]>> :
      t \in { u \in MemberPool \X Dests :
                /\ u[1].type \in {SYMTYPE, LNKTYPE}
                /\ u[1].linkname # <<>>
                /\ ~IsSafePath(u[1].linkname, Abspath(u[2])) } }

\* for every member, root directory name and destination: the path the
\* member is extracted to (tabulated once)
OutputPathTable ==
  [m \in MemberPool, rd \in RootNames, d \in Dests |->
     Abspath(d) \o <<"/">> \o RewrittenFor(m, rd)]

\* the archive's root directory: the first path component of its first member
ArchiveRoot == SplitSlash(archive[1].name)[1]

IsLinkMember(m) == m.type \in {SYMTYPE, LNKTYPE}

HasUnsafeTarget(m) == <<m, dest>> \in UnsafeTargetSet

PathValidated(m) == <<m, ArchiveRoot, dest>> \in PathValidatedSet

OutputPath(m) == OutputPathTable[m, ArchiveRoot, dest]

\* the member passes the whole validation loop
Validated(m) == PathValidated(m) /\ ~HasUnsafeTarget(m)

\* the indices of the members tfile.extract wrote without raising
WrittenMembers == Range(attempted) \ failed_members

\* the archive was read and is not empty: the validation loop was entered
LoopEntered == error \notin {"ArchiveOpen", "Empty tarball"}

\* the members of the plan that the extraction loop does not skip: all of
\* them with the data filter, all but the oversized regular files without it
NotSkippedForSize(m) ==
  has_filter \/ ~(m.type = REGTYPE /\ m.size > 104857600)

\* C1: a member is handed to the extraction step only after the validation
\* loop has finished and only if its rewritten path, and for a link with a
\* non-empty target its link target, passed is_safe_path; no other member is
\* in the plan, and every path written is the output path of such a member.
C1_OnlyValidatedExtracted ==
  /\ attempted # <<>> => (pc \in {"extract", "returned", "raised"} /\ i > Len(archive))
  /\ \A k \in 1..Len(attempted) : Validated(archive[attempted[k]])
  /\ \A k \in 1..Len(safe_members) : Validated(archive[safe_members[k]])
  /\ \A path \in written :
       \E idx \in 1..Len(archive) :
         Validated(archive[idx]) /\ path = OutputPath(archive[idx])

\* extract_tarball ended on an archive of three members after the loop had
\* passed a member outside the root directory and a member with an unsafe
\* rewritten path: neither was planned, handed over or written
C1_Witness ==
  /\ Ended
  /\ LoopEntered
  /\ Len(archive) = 3
  /\ \E idx \in 1..(i - 1) : ~StartsWith(archive[idx].name, ArchiveRoot)
  /\ \E idx \in 1..(i - 1) :
       StartsWith(archive[idx].name, ArchiveRoot) /\ ~PathValidated(archive[idx])
  /\ safe_members = <<>>
  /\ attempted = <<>>
  /\ written = {}

\* C5: a symbolic or hard link whose target fails is_safe_path is never put
\* in the plan, never handed to the extraction step and never written, even
\* when its own rewritten path is safe.
C5_UnsafeLinkTargetExcluded ==
  \A idx \in 1..Len(archive) :
    HasUnsafeTarget(archive[idx]) =>
      /\ idx \notin Range(safe_members)
      /\ idx \notin Range(attempted)
      /\ (\A other \in 1..Len(archive) :
            OutputPath(archive[other]) = OutputPath(archive[idx])
              => HasUnsafeTarget(archive[other]))
           => OutputPath(archive[idx]) \notin written

\* the loop reached a symbolic link with a safe rewritten path and the target
\* ../../e, and extract_tarball ended there with the link neither planned nor
\* written
C5_Witness ==
  /\ pc = "raised"
  /\ error = "AttributeError"
  /\ i <= Len(archive)
  /\ archive[i].type = SYMTYPE
  /\ archive[i].linkname = <<".", ".", "/", ".", ".", "/", "e">>
  /\ PathValidated(archive[i])
  /\ HasUnsafeTarget(archive[i])
  /\ i \notin Range(safe_members)
  /\ written = {}

\* C6: when every member of a non-empty archive is rejected, extract_tarball
\* ends with the "No safe members to extract" error, no member was handed to
\* the extraction step or written, and the destination root was created.
C6_NoSafeMembersFails ==
  /\ (/\ Ended
      /\ LoopEntered
      /\ \A idx \in 1..Len(archive) : ~Validated(archive[idx]))
       => error = "No safe members to extract"
  /\ (archive # <<>> /\ \A idx \in 1..Len(archive) : ~Validated(archive[idx]))
       => (pc # "extract" /\ pc # "returned")
  /\ error = "No safe members to extract"
       => /\ pc = "raised"
          /\ written = {}
          /\ attempted = <<>>
          /\ dest_created
          /\ \A idx \in 1..Len(archive) : ~Validated(archive[idx])

\* C7: a member-level failure never aborts extract_tarball: the function is
\* left by an error only for an unreadable or empty archive or an empty plan,
\* and when it ends after the validation loop was entered, every member that
\* passes validation and is not an oversized file of the fallback branch was
\* handed to the extraction step.
C7_MemberFailureNeverAborts ==
  /\ pc = "raised" =>
       error \in {"ArchiveOpen", "Empty tarball", "No safe members to extract"}
  /\ (Ended /\ LoopEntered) =>
       \A idx \in 1..Len(archive) :
         (Validated(archive[idx]) /\ NotSkippedForSize(archive[idx]))
           => idx \in Range(attempted)

\* C8: every path written is <destination>/xz or lies beneath
\* <destination>/xz/, and a member whose first path component differs from
\* the root directory is dropped by the root test: it is never put in the
\* plan and the validation loop never goes past the root test with it.
C8_EverythingUnderXz ==
  /\ \A path \in written :
       \/ path = Abspath(dest) \o <<"/", "x", "z">>
       \/ StartsWith(path, Abspath(dest) \o <<"/", "x", "z", "/">>)
  /\ \A k \in 1..Len(safe_members) :
       SplitSlash(archive[safe_members[k]].name)[1] = ArchiveRoot
  /\ error = "AttributeError" => SplitSlash(archive[i].name)[1] = ArchiveRoot

\* C9: when no write error occurs, extract_tarball returns and the paths
\* created are exactly the rewritten paths of the members that pass
\* validation; the archive [root/, root/s/a, root/../e] yields exactly
\* <dest>/xz and <dest>/xz/s/a.
C9_WrittenExactlyValidated ==
  (Ended /\ LoopEntered /\ failed_members = {}) =>
    /\ written = { OutputPath(archive[idx]) :
                     idx \in { n \in 1..Len(archive) : Validated(archive[n]) } }
    /\ archive = << Dir(<<"r">>),
                    File(<<"r", "/", "s", "/", "a">>, 1),
                    File(<<"r", "/", ".", ".", "/", "e">>, 1) >>
         => written = { Abspath(dest) \o <<"/", "x", "z">>,
                        Abspath(dest) \o <<"/", "x", "z", "/", "s", "/", "a">> }

\* C10: without the data filter, a regular file whose declared size exceeds
\* 100 MiB is never handed to the extraction step or written, and when
\* extract_tarball ends after the validation loop was entered, every regular
\* file of at most 100 MiB that passes validation was extracted.
C10_OversizedSkippedInFallback ==
  ~has_filter =>
    /\ \A k \in 1..Len(attempted) :
         ~(archive[attempted[k]].type = REGTYPE /\ archive[attempted[k]].size > 104857600)
    /\ (Ended /\ LoopEntered) =>
         \A idx \in 1..Len(archive) :
           (/\ archive[idx].type = REGTYPE
            /\ archive[idx].size <= 104857600
            /\ Validated(archive[idx]))
             => (idx \in WrittenMembers /\ OutputPath(archive[idx]) \in written)

(* ------------------------------- links --------------------------------- *)

\* the links tfile.extract has created, each with the target it was given:
\* the linkname of the TarInfo object at the time of the call
LinksCreated ==
  { << TargetPath(extract_dir, members[k].name), members[k].linkname >> :
      k \in { n \in WrittenMembers : members[n].type \in {SYMTYPE, LNKTYPE} } }

\* a link's target with the archive root directory replaced by "xz"
RewrittenTarget(m) ==
  IF StartsWith(m.linkname, ArchiveRoot \o <<"/">>)
  THEN <<"x", "z">> \o SubSeq(m.linkname, Len(ArchiveRoot) + 1, Len(m.linkname))
  ELSE m.linkname

\* the link's rewritten target is the rewritten name of an accepted member
TargetAccepted(m) ==
  \E idx \in 1..Len(archive) :
    /\ Validated(archive[idx])
    /\ RewrittenFor(archive[idx], ArchiveRoot) = RewrittenTarget(m)

\* C11: every link created comes from an accepted link member whose
\* rewritten target is among the accepted members and points at that
\* rewritten target, never at a name with the original root directory; an
\* accepted link whose target is not among the accepted members is not
\* handed to the extraction step; and when extract_tarball ends after the
\* validation loop was entered, every accepted link whose rewritten target is
\* among the accepted members has been created.
C11_LinksPointAtRewrittenTarget ==
  /\ \A l \in LinksCreated :
       \E idx \in 1..Len(archive) :
         /\ IsLinkMember(archive[idx])
         /\ Validated(archive[idx])
         /\ TargetAccepted(archive[idx])
         /\ l = << OutputPath(archive[idx]), RewrittenTarget(archive[idx]) >>
  /\ \A idx \in 1..Len(archive) :
       (IsLinkMember(archive[idx]) /\ ~TargetAccepted(archive[idx]))
         => idx \notin Range(attempted)
  /\ (Ended /\ LoopEntered) =>
       \A idx \in 1..Len(archive) :
         (/\ IsLinkMember(archive[idx])
          /\ Validated(archive[idx])
          /\ TargetAccepted(archive[idx]))
           => << OutputPath(archive[idx]), RewrittenTarget(archive[idx]) >>
                \in LinksCreated

(* --------------------------- claims: two calls ------------------------- *)

EnvBlank ==
  ~environ.set \/ \A k \in 1..Len(environ.value) : environ.value[k] \in Whitespace

\* t is v without the whitespace at its two ends
IsTrimOf(t, v) ==
  /\ t # <<>>
  /\ t[1] \notin Whitespace
  /\ t[Len(t)] \notin Whitespace
  /\ \E a \in 0..Len(v) :
       /\ a + Len(t) <= Len(v)
       /\ t = SubSeq(v, a + 1, a + Len(t))
       /\ \A k \in 1..a : v[k] \in Whitespace
       /\ \A k \in (a + Len(t) + 1)..Len(v) : v[k] \in Whitespace

\* xz-version.json is missing, unreadable or has no version
NoFileVersion ==
  \/ config_file.state \in {"missing", "ioerror", "invalid_json", "bad_encoding"}
  \/ ~config_file.has_version

\* the part of the priority that concerns the file and the fallback: with a
\* non-blank XZ_VERSION the file is not consulted and nothing is raised; with
\* a blank one the file is consulted and its version, if it has one, is
\* returned; the fallback is returned only with a blank XZ_VERSION and a file
\* that is missing, unreadable or without a version
FileAndFallbackPriority ==
  /\ ~EnvBlank =>
       /\ ver_pc \in {"start", "returned"}
       /\ "xz-version.json" \notin consulted
       /\ origin \in {"none", "environment", "latest"}
  /\ (EnvBlank /\ ver_pc = "returned") =>
       /\ consulted = {"xz-version.json"}
       /\ origin \in {"file", "fallback"}
       /\ (config_file.state = "object" /\ config_file.has_version)
            => (origin = "file" /\ version = config_file.version)
  /\ origin = "fallback" =>
       (EnvBlank /\ NoFileVersion /\ version = V540)

\* C14 as stated: a non-blank XZ_VERSION value is returned verbatim, or
\* resolved by the latest-release lookup when it is 'latest', and the file
\* and the fallback come after it in the priority.
C14_VersionPriority ==
  /\ FileAndFallbackPriority
  /\ (~EnvBlank /\ ver_pc = "returned") =>
       version = IF environ.value = LatestWord
                 THEN GetLatestVersion(latest_release)
                 ELSE environ.value

\* C14 as amended: a non-blank XZ_VERSION value is used with its surrounding
\* whitespace removed: it is resolved by the latest-release lookup when what
\* remains is 'latest' in any letter case and returned as what remains
\* otherwise; the file and the fallback come after it in the priority.
C14_VersionPriorityStripped ==
  /\ FileAndFallbackPriority
  /\ (~EnvBlank /\ ver_pc = "returned") =>
       \E t \in { SubSeq(environ.value, a, b) :
                    a \in 1..Len(environ.value), b \in 1..Len(environ.value) } :
         /\ IsTrimOf(t, environ.value)
         /\ IF Lower(t) = LatestWord
            THEN /\ version = GetLatestVersion(latest_release)
                 /\ origin = "latest"
                 /\ consulted = {"github"}
            ELSE /\ version = t
                 /\ origin = "environment"
                 /\ consulted = {}

\* XZ_VERSION was ' v1 ' next to a file with a version, and 'v1' was
\* returned without the file being read
C14_Witness ==
  /\ ver_pc = "returned"
  /\ environ = [set |-> TRUE, value |-> <<" ", "v", "1", " ">>]
  /\ config_file.state = "object"
  /\ config_file.has_version
  /\ version = <<"v", "1">>
  /\ consulted = {}

(* ------------------------- claims: archive order ----------------------- *)

\* the indices of the members that pass validation and are not skipped as
\* oversized, in archive order
AcceptedInOrder ==
  SelectSeq([k \in 1..Len(archive) |-> k],
            LAMBDA k : Validated(archive[k]) /\ NotSkippedForSize(archive[k]))

\* C15: the writes are attempted in archive order and no member is attempted
\* twice (the indices in attempted increase strictly), and when
\* extract_tarball ends after the validation loop was entered, the members
\* whose write was attempted are exactly the accepted members, in the order
\* of the archive.
C15_ArchiveOrder ==
  /\ \A k \in 1..Len(attempted) : \A l \in 1..Len(attempted) :
       k < l => attempted[k] < attempted[l]
  /\ (Ended /\ LoopEntered) => attempted = AcceptedInOrder

(* ------------------- claims: build_xz_with_cmake.main ------------------ *)

\* the build steps in the order of the claim
StepOrder ==
  << "configure", "build", "install", "fix_windows", "fix_macos", "verify" >>

\* C16: the steps called are an initial part of configure, build, install,
\* Windows library-name fix, macOS install-name fix, verify, in that order;
\* every step before the last one called returned success; and when main
\* has returned, it returned 0 if all six steps were called and succeeded
\* and 1 if not.
C16_BuildStepsInOrder ==
  /\ Len(steps_run) <= Len(StepOrder)
  /\ Len(results) = Len(steps_run)
  /\ \A k \in 1..Len(steps_run) : steps_run[k] = StepOrder[k]
  /\ \A k \in 1..(Len(steps_run) - 1) : results[k] = "True"
  /\ build_pc = "returned" =>
       /\ build_ret \in {0, 1}
       /\ build_ret = 0 <=>
            (Len(steps_run) = 6 /\ \A k \in 1..6 : results[k] = "True")

\* main returned 1 after install failed: configure and build had succeeded
\* and no later step was called
C16_Witness ==
  /\ build_pc = "returned"
  /\ build_ret = 1
  /\ steps_run = << "configure", "build", "install" >>
  /\ results = << "True", "True", "False" >>

====
